---- MODULE Spec2Model ----
(***************************************************************************)
(* The LiveTutor component of src/index.tsx: one React component holding   *)
(* the state of a real-time audio conversation, the sessions it starts     *)
(* through startSession, the callbacks the transport delivers to them      *)
(* (onopen, onmessage, onclose, onerror) and the teardown routine cleanup. *)
(*                                                                         *)
(* Every handler runs to completion (a JavaScript task plus its            *)
(* microtasks).  The two places where startSession and onmessage suspend   *)
(* (await getUserMedia, await decodeAudioData) are positions of the        *)
(* model: pc[s] = "media" and the queue suspended.                         *)
(***************************************************************************)
EXTENDS Integers, Sequences, FiniteSets, Bags, TLC

Max(a, b) == IF a >= b THEN a ELSE b

\* ---------------------------------------------------------------- bounds
\* Four scopes bound the same actions differently.  A scope fixes how many
\* sessions are started and which payload kinds the remote sends.
\*   Life: the session life cycle, messages with every payload kind
\*   Race: three sessions, messages with audio only
\*   Turn: one session, messages with transcript deltas and turn-complete only
\*   Play: one session, messages with audio only
\*   Mix:  one session, messages with every payload kind
\*   Cap:  three sessions, microphone frames and no inbound message
LifeSessions == 2     \* startSession invocations in one behaviour
LifeChunks == 1       \* audio chunks decoded in one behaviour
LifeClock == 1        \* largest reading of an output context's currentTime
LifeDur == 1          \* longest decoded buffer, in clock units
LifeText == 1         \* longest accumulated text, in characters
LifeEntries == 1      \* entries finalized, and translations in flight
LifeNow == 0          \* largest reading of Date.now()
LifeSuspended == 1    \* onmessage continuations waiting in the microtask queue

RaceSessions == 3
RaceChunks == 2
RaceClock == 1
RaceDur == 2
RaceSuspended == 1

TurnSessions == 1
TurnUserText == 3      \* longest accumulated user text
TurnModelText == 2     \* longest accumulated model text
TurnEntries == 2
TurnNow == 0

PlaySessions == 1
PlayChunks == 3
PlayClock == 3
PlayDur == 2
PlaySuspended == 2

MixSessions == 1
MixChunks == 2
MixClock == 1
MixDur == 1
MixText == 1
MixEntries == 2
MixNow == 0
MixSuspended == 1

CapSessions == 3
CapFrames == 2        \* onaudioprocess events of one session

\* the audio utilities, applied to frames and header arguments drawn at Init
CodecSub == 4         \* sample values told apart within one 1/32768 step
CodecFrame == 3       \* longest frame, in samples

NoText == <<"-">>     \* the payload kind is absent from the message
NoAudio == 0          \* no inline audio in the message
BadAudio == -1        \* inline audio that decodeAudioData cannot turn into a buffer
Audio(maxDur) == {NoAudio, BadAudio} \cup (1..maxDur)

Life == [sessions |-> LifeSessions, chunks |-> LifeChunks, clock |-> LifeClock,
         audio |-> Audio(LifeDur), suspended |-> LifeSuspended,
         textIn |-> LifeText, textOut |-> LifeText, entries |-> LifeEntries, now |-> LifeNow,
         deltas |-> {<<"a">>}, turns |-> BOOLEAN]
Race == [sessions |-> RaceSessions, chunks |-> RaceChunks, clock |-> RaceClock,
         audio |-> Audio(RaceDur), suspended |-> RaceSuspended,
         textIn |-> 0, textOut |-> 0, entries |-> 0, now |-> 0,
         deltas |-> {}, turns |-> {FALSE}]
Turn == [sessions |-> TurnSessions, chunks |-> 0, clock |-> 0,
         audio |-> {NoAudio}, suspended |-> 0,
         textIn |-> TurnUserText, textOut |-> TurnModelText, entries |-> TurnEntries, now |-> TurnNow,
         deltas |-> {<<" ">>, <<"a">>}, turns |-> BOOLEAN]
Play == [sessions |-> PlaySessions, chunks |-> PlayChunks, clock |-> PlayClock,
         audio |-> Audio(PlayDur), suspended |-> PlaySuspended,
         textIn |-> 0, textOut |-> 0, entries |-> 0, now |-> 0,
         deltas |-> {}, turns |-> {FALSE}]
Mix == [sessions |-> MixSessions, chunks |-> MixChunks, clock |-> MixClock,
        audio |-> Audio(MixDur), suspended |-> MixSuspended,
        textIn |-> MixText, textOut |-> MixText, entries |-> MixEntries, now |-> MixNow,
        deltas |-> {<<"a">>}, turns |-> BOOLEAN]
Cap == [sessions |-> CapSessions, frames |-> CapFrames]

MaxSessions ==
  Max(Max(LifeSessions, Max(RaceSessions, CapSessions)),
      Max(TurnSessions, Max(PlaySessions, MixSessions)))
MaxUnits == Max(Max(LifeChunks, MixChunks), Max(RaceChunks, PlayChunks))
Sessions == 1..MaxSessions
NoSession == 0        \* a null ref
NoTopic == "null"
Topics == {"Travel"}
Absent == "absent"    \* TranscriptEntry.translation is not set
Failure == "failure"  \* generateContent throws or rejects
Responses == {Failure, "", "zh"}   \* what the request of translateText comes to

\* ----------------------------------------------------------------- state
VARIABLES
  \* React state of LiveTutor
  connected, connecting, topic, transcript, liveUserText, liveModelText,
  \* refs of LiveTutor
  sessionRef, audioContextRef, inputContextRef, nextStartTime, sourcesRef,
  accumulatedInput, accumulatedOutput,
  \* one startSession invocation per session: its position and its closure
  nsess, pc, inputCtx, outputCtx, clock, ws, prom, closeReq, capture,
  \* the output device: every source on which start() was called
  units,
  \* onmessage continuations suspended at await decodeAudioData, each with the
  \* rank of its message among the audio messages that reached the decoder
  suspended,
  \* translateText calls in flight (a bag of entry ids), and Date.now()
  translating, wall,
  \* the audio utilities: the frame given to createBlob, the base64 data it
  \* returns, the channel data decodeAudioData makes of that, the arguments
  \* and the result of getWavHeader, and which of these calls have run
  pcm, pcmBlob, channelData, wav, utilPc,
  \* the capture path: the onaudioprocess events fired per session, and the
  \* sendRealtimeInput calls made, in the order they were made
  frames, sent

compVars == <<connected, connecting, topic, transcript, liveUserText, liveModelText>>
refVars == <<sessionRef, audioContextRef, inputContextRef, nextStartTime, sourcesRef,
             accumulatedInput, accumulatedOutput>>
sessVars == <<nsess, pc, inputCtx, outputCtx, clock, ws, prom, closeReq, capture>>
utilVars == <<pcm, pcmBlob, channelData, wav, utilPc>>
capVars == <<frames, sent>>
vars == <<compVars, refVars, sessVars, units, suspended, translating, wall, utilVars,
          capVars>>

\* ------------------------------------------------------- pure functions
RECURSIVE trimStart(_)
trimStart(s) == IF s # <<>> /\ Head(s) = " " THEN trimStart(Tail(s)) ELSE s

RECURSIVE trimEnd(_)
trimEnd(s) ==
  IF s # <<>> /\ s[Len(s)] = " " THEN trimEnd(SubSeq(s, 1, Len(s) - 1)) ELSE s

\* only the leading blanks are removed
trimLeadingOnly(s) == trimStart(s)

\* String.prototype.trim
trim(s) == trimEnd(trimStart(s))

\* the model entry is pushed before the user entry
entriesModelFirst(idPrefix, inText, outText) ==
  LET finalUserText == trim(inText)
      finalModelText == trim(outText)
      u == IF finalUserText # <<>>
           THEN <<[id |-> <<idPrefix, "-u">>, role |-> "user",
                   text |-> finalUserText, translation |-> Absent]>>
           ELSE <<>>
      m == IF finalModelText # <<>>
           THEN <<[id |-> <<idPrefix, "-m">>, role |-> "model",
                   text |-> finalModelText, translation |-> Absent]>>
           ELSE <<>>
  IN m \o u

\* the entries a turn-complete builds from the two accumulators
entriesToAdd(idPrefix, inText, outText) ==
  LET finalUserText == trim(inText)
      finalModelText == trim(outText)
      u == IF finalUserText # <<>>
           THEN <<[id |-> <<idPrefix, "-u">>, role |-> "user",
                   text |-> finalUserText, translation |-> Absent]>>
           ELSE <<>>
      m == IF finalModelText # <<>>
           THEN <<[id |-> <<idPrefix, "-m">>, role |-> "model",
                   text |-> finalModelText, translation |-> Absent]>>
           ELSE <<>>
  IN u \o m

\* the error of the request is returned as the translation
translateTextNoCatch(r) == r

\* translateText: the trimmed text of the response, "" when it has none or
\* when the request fails
translateText(r) == IF r = Failure THEN "" ELSE r

Translations == {translateText(r) : r \in Responses}

\* an entry with the id is added when none has it
patchOrAppend(prev, id, translation) ==
  IF \E i \in DOMAIN prev : prev[i].id = id
  THEN [i \in DOMAIN prev |->
          IF prev[i].id = id THEN [prev[i] EXCEPT !.translation = translation]
          ELSE prev[i]]
  ELSE Append(prev, [id |-> id, role |-> "user", text |-> <<>>,
                     translation |-> translation])

\* setTranscript(prev => prev.map(t => t.id === entry.id ? {...t, translation} : t))
patch(prev, id, translation) ==
  [i \in DOMAIN prev |->
     IF prev[i].id = id THEN [prev[i] EXCEPT !.translation = translation] ELSE prev[i]]

\* startTime = Math.max(nextStartTimeRef.current, now)
startTimeOf(next, now) == Max(next, now)

\* what the turn-complete block and the audio block of onmessage read and write
handlerState ==
  [transcript |-> transcript, accumulatedInput |-> accumulatedInput,
   accumulatedOutput |-> accumulatedOutput, liveUserText |-> liveUserText,
   liveModelText |-> liveModelText, translating |-> translating, wall |-> wall,
   units |-> units, nextStartTime |-> nextStartTime, sourcesRef |-> sourcesRef,
   clock |-> clock]

\* a turn boundary also rewinds the playback cursor
finalizeTurnResetsCursor(c, idPrefix) ==
  LET added == entriesToAdd(idPrefix, c.accumulatedInput, c.accumulatedOutput)
  IN [c EXCEPT !.transcript = c.transcript \o added,
               !.accumulatedInput = <<>>,
               !.accumulatedOutput = <<>>,
               !.liveUserText = <<>>,
               !.liveModelText = <<>>,
               !.translating = c.translating (+) SetToBag({added[i].id : i \in DOMAIN added}),
               !.wall = idPrefix,
               !.nextStartTime = 0]

\* the turn-complete block of onmessage as a function of that state;
\* idPrefix is the reading of Date.now()
finalizeTurn(c, idPrefix) ==
  LET added == entriesToAdd(idPrefix, c.accumulatedInput, c.accumulatedOutput)
  IN [c EXCEPT !.transcript = c.transcript \o added,
               !.accumulatedInput = <<>>,
               !.accumulatedOutput = <<>>,
               !.liveUserText = <<>>,
               !.liveModelText = <<>>,
               !.translating = c.translating (+) SetToBag({added[i].id : i \in DOMAIN added}),
               !.wall = idPrefix]

\* the audio block of onmessage, from createBufferSource on, as a function of
\* that state; dur is audioBuffer.duration, now is outputCtx.currentTime of
\* session s, arr the rank of the message
scheduleChunk(c, s, dur, now, arr) ==
  LET startTime == startTimeOf(c.nextStartTime, now)
  IN [c EXCEPT !.units = Append(c.units, [s |-> s, start |-> startTime, dur |-> dur,
                                          at |-> now, st |-> "playing", arr |-> arr]),
               !.nextStartTime = startTime + dur,
               !.sourcesRef = c.sourcesRef \cup {Len(c.units) + 1},
               !.clock = [c.clock EXCEPT ![s] = now]]

\* Session.close() on the transport: an open connection starts closing
sessionClose(w, s) == IF w[s] = "open" THEN [w EXCEPT ![s] = "closing"] ELSE w

\* the source is left playing
stopSourceNot(u) == u

\* source.stop(): a playing source stops, its ended event is still to come
stopSource(u) == IF u.st = "playing" THEN [u EXCEPT !.st = "stopped"] ELSE u

\* the context is left open
closeContextNot(ctx, ref) == ctx

\* if (ref.current && ref.current.state !== 'closed') ref.current.close()
closeContext(ctx, ref) ==
  IF ref # NoSession /\ ctx[ref] # "closed" THEN [ctx EXCEPT ![ref] = "closed"] ELSE ctx

\* ------------------------------------------------------ audio utilities
\* A sample is an integer x standing for the number x / (32768 * CodecSub).
Pad == 64             \* the base64 character "="; 0..63 are the other 64

\* the integer part of a / b, b > 0 (conversion of a Number to an integer)
Trunc(a, b) == IF a >= 0 THEN a \div b ELSE -((-a) \div b)

\* storing integer v in an Int16Array element: v modulo 2^16, as signed
toInt16(v) == ((v + 32768) % 65536) - 32768

\* int16[i] = data[i] * 32768
int16OfSample(x) == toInt16(Trunc(x, CodecSub))

\* the high byte comes first
bytesOfInt16BE(v) == <<((v % 65536) \div 256), (v % 65536) % 256>>

\* the two bytes of an Int16Array element in its buffer (little-endian)
bytesOfInt16(v) == <<(v % 65536) % 256, (v % 65536) \div 256>>

\* new Uint8Array(int16.buffer)
RECURSIVE bytesOf(_)
bytesOf(int16) ==
  IF int16 = <<>> THEN <<>>
  ELSE bytesOfInt16(Head(int16)) \o bytesOf(Tail(int16))

\* btoa on a string of one character per byte
RECURSIVE btoa(_)
btoa(b) ==
  IF b = <<>> THEN <<>>
  ELSE IF Len(b) = 1
       THEN <<b[1] \div 4, (b[1] % 4) * 16, Pad, Pad>>
  ELSE IF Len(b) = 2
       THEN <<b[1] \div 4, (b[1] % 4) * 16 + b[2] \div 16, (b[2] % 16) * 4, Pad>>
  ELSE <<b[1] \div 4, (b[1] % 4) * 16 + b[2] \div 16,
         (b[2] % 16) * 4 + b[3] \div 64, b[3] % 64>> \o btoa(SubSeq(b, 4, Len(b)))

\* atob, to a string of one character per byte
RECURSIVE atob(_)
atob(c) ==
  IF Len(c) < 4 THEN <<>>
  ELSE LET b1 == c[1] * 4 + c[2] \div 16
           b2 == (c[2] % 16) * 16 + c[3] \div 4
           b3 == (c[3] % 4) * 64 + c[4]
       IN (IF c[3] = Pad THEN <<b1>>
           ELSE IF c[4] = Pad THEN <<b1, b2>>
           ELSE <<b1, b2, b3>>) \o atob(SubSeq(c, 5, Len(c)))

\* encode(bytes): String.fromCharCode of each byte, then btoa
encode(bytes) == btoa(bytes)

\* decode(base64): atob, then charCodeAt of each character
decode(base64) == atob(base64)

\* createBlob(data).data
createBlob(data) ==
  encode(bytesOf([i \in DOMAIN data |-> int16OfSample(data[i])]))

\* new Int16Array(data.buffer, data.byteOffset, data.byteLength / 2)
dataInt16(data) ==
  [i \in 1..(Len(data) \div 2) |-> toInt16(data[2 * i - 1] + 256 * data[2 * i])]

\* decodeAudioData(data, ctx, sampleRate, numChannels): the channel data of
\* each channel, frameCount samples dataInt16[i * numChannels + channel] / 32768
decodeAudioData(data, numChannels) ==
  LET int16 == dataInt16(data)
      frameCount == Len(int16) \div numChannels
  IN [channel \in 1..numChannels |->
        [i \in 1..frameCount |-> int16[(i - 1) * numChannels + channel] * CodecSub]]

\* A 32-bit quantity is a record of two 16-bit halves, hi * 65536 + lo.
Half == 65536
plus(k, n) ==
  LET l == n.lo + k IN [hi |-> n.hi + l \div Half, lo |-> l % Half]
times2(n) ==
  LET l == 2 * n.lo IN [hi |-> 2 * n.hi + l \div Half, lo |-> l % Half]

\* the most significant byte comes first
setUint32BE(n) ==
  <<((n.hi % Half) \div 256), (n.hi % Half) % 256, n.lo \div 256, n.lo % 256>>

\* view.setUint32(offset, n, true): n modulo 2^32, little-endian
setUint32(n) ==
  <<n.lo % 256, n.lo \div 256, (n.hi % Half) % 256, (n.hi % Half) \div 256>>

\* view.setUint16(offset, v, true)
setUint16(v) == <<(v % Half) % 256, (v % Half) \div 256>>

\* writeString: the character codes of "RIFF", "WAVE", "fmt " and "data"
tagRIFF == <<82, 73, 70, 70>>
tagWAVE == <<87, 65, 86, 69>>
tagFmt == <<102, 109, 116, 32>>
tagData == <<100, 97, 116, 97>>

\* getWavHeader(bufferLength, sampleRate): the 44 bytes of the buffer
getWavHeader(bufferLength, sampleRate) ==
  tagRIFF \o setUint32(plus(36, bufferLength)) \o tagWAVE \o tagFmt
       \o setUint32([hi |-> 0, lo |-> 16])
       \o setUint16(1) \o setUint16(1)
       \o setUint32(sampleRate) \o setUint32(times2(sampleRate))
       \o setUint16(2) \o setUint16(16)
       \o tagData \o setUint32(bufferLength)

\* no getWavHeader call
NoWav == [bufferLength |-> [hi |-> 0, lo |-> 0], sampleRate |-> [hi |-> 0, lo |-> 0],
          header |-> <<>>]

\* -------------------------------------------------------------- teardown
\* what cleanup reads and writes; w is the transport state as the calling
\* handler leaves it
cleanupState(w) ==
  [ws |-> w, prom |-> prom, closeReq |-> closeReq, sessionRef |-> sessionRef,
   units |-> units, sourcesRef |-> sourcesRef,
   audioContextRef |-> audioContextRef, inputContextRef |-> inputContextRef,
   outputCtx |-> outputCtx, inputCtx |-> inputCtx,
   connected |-> connected, connecting |-> connecting, transcript |-> transcript,
   liveUserText |-> liveUserText, liveModelText |-> liveModelText, topic |-> topic,
   accumulatedInput |-> accumulatedInput, accumulatedOutput |-> accumulatedOutput]

\* cleanup() as a function of that state.  The then-callback on the promise
\* in sessionRef runs at once when the promise is fulfilled, waits for onopen
\* when it is pending, and never runs when it is rejected.
cleanupOf(c) ==
  [c EXCEPT
     !.ws = IF c.sessionRef # NoSession /\ c.prom[c.sessionRef] = "resolved"
            THEN sessionClose(c.ws, c.sessionRef) ELSE c.ws,
     !.closeReq = IF c.sessionRef # NoSession /\ c.prom[c.sessionRef] = "pending"
                  THEN [c.closeReq EXCEPT ![c.sessionRef] = TRUE] ELSE c.closeReq,
     !.sessionRef = NoSession,
     !.units = [i \in DOMAIN c.units |->
                  IF i \in c.sourcesRef THEN stopSource(c.units[i]) ELSE c.units[i]],
     !.sourcesRef = {},
     !.outputCtx = closeContext(c.outputCtx, c.audioContextRef),
     !.inputCtx = closeContext(c.inputCtx, c.inputContextRef),
     !.connected = FALSE,
     !.connecting = FALSE,
     !.transcript = <<>>,
     !.liveUserText = <<>>,
     !.liveModelText = <<>>,
     !.topic = NoTopic,
     !.accumulatedInput = <<>>,
     !.accumulatedOutput = <<>>]

\* a handler that calls cleanup()
cleanup(w) ==
  LET c == cleanupOf(cleanupState(w))
  IN /\ ws' = c.ws
     /\ closeReq' = c.closeReq
     /\ sessionRef' = c.sessionRef
     /\ units' = c.units
     /\ sourcesRef' = c.sourcesRef
     /\ outputCtx' = c.outputCtx
     /\ inputCtx' = c.inputCtx
     /\ connected' = c.connected
     /\ connecting' = c.connecting
     /\ transcript' = c.transcript
     /\ liveUserText' = c.liveUserText
     /\ liveModelText' = c.liveModelText
     /\ topic' = c.topic
     /\ accumulatedInput' = c.accumulatedInput
     /\ accumulatedOutput' = c.accumulatedOutput
     /\ UNCHANGED <<audioContextRef, inputContextRef, nextStartTime>>
     /\ UNCHANGED <<nsess, pc, clock, prom, capture, suspended, translating, wall, utilVars, capVars>>

\* ------------------------------------------------------------------ Init
InitLiveTutor ==
  /\ connected = FALSE /\ connecting = FALSE /\ topic = NoTopic
  /\ transcript = <<>> /\ liveUserText = <<>> /\ liveModelText = <<>>
  /\ sessionRef = NoSession /\ audioContextRef = NoSession
  /\ inputContextRef = NoSession
  /\ nextStartTime = 0 /\ sourcesRef = {}
  /\ accumulatedInput = <<>> /\ accumulatedOutput = <<>>
  /\ nsess = 0
  /\ pc = [s \in Sessions |-> "idle"]
  /\ inputCtx = [s \in Sessions |-> "none"]
  /\ outputCtx = [s \in Sessions |-> "none"]
  /\ clock = [s \in Sessions |-> 0]
  /\ ws = [s \in Sessions |-> "none"]
  /\ prom = [s \in Sessions |-> "none"]
  /\ closeReq = [s \in Sessions |-> FALSE]
  /\ capture = [s \in Sessions |-> FALSE]
  /\ units = <<>>
  /\ suspended = <<>>
  /\ translating = EmptyBag
  /\ wall = 0
  /\ frames = [s \in Sessions |-> 0]
  /\ sent = <<>>

\* no utility call is under way
InitAudioUtils ==
  /\ pcm = <<>> /\ pcmBlob = <<>> /\ channelData = <<>>
  /\ wav = NoWav
  /\ utilPc = "idle"

Init == InitLiveTutor /\ InitAudioUtils

\* a task is taken from the event loop only when no microtask is waiting
Quiet == suspended = <<>>

\* --------------------------------------------------------- startSession
\* click on a topic button: startSession up to await getUserMedia
SelectTopic(B) ==
  /\ Quiet
  /\ ~connected /\ ~connecting
  /\ nsess < B.sessions
  /\ \E t \in Topics :
       /\ connecting' = TRUE
       /\ topic' = t
  /\ nsess' = nsess + 1
  /\ pc' = [pc EXCEPT ![nsess + 1] = "media"]
  /\ UNCHANGED <<connected, transcript, liveUserText, liveModelText>>
  /\ UNCHANGED <<refVars, inputCtx, outputCtx, clock, ws, prom, closeReq, capture>>
  /\ UNCHANGED <<units, suspended, translating, wall, utilVars, capVars>>

\* getUserMedia resolves: the contexts are created and connect is issued
MediaGranted(s) ==
  /\ Quiet
  /\ pc[s] = "media"
  /\ inputCtx' = [inputCtx EXCEPT ![s] = "running"]
  /\ inputContextRef' = s
  /\ outputCtx' = [outputCtx EXCEPT ![s] = "running"]
  /\ audioContextRef' = s
  /\ nextStartTime' = clock[s]
  /\ ws' = [ws EXCEPT ![s] = "connecting"]
  /\ prom' = [prom EXCEPT ![s] = "pending"]
  /\ sessionRef' = s
  /\ pc' = [pc EXCEPT ![s] = "started"]
  /\ UNCHANGED <<compVars, sourcesRef, accumulatedInput, accumulatedOutput>>
  /\ UNCHANGED <<nsess, clock, closeReq, capture, units, suspended, translating, wall, utilVars, capVars>>

\* the catch block leaves connecting as it is
MediaDeniedKeepsConnecting(s) ==
  /\ Quiet
  /\ pc[s] = "media"
  /\ topic' = NoTopic
  /\ pc' = [pc EXCEPT ![s] = "failed"]
  /\ UNCHANGED <<connected, connecting, transcript, liveUserText, liveModelText>>
  /\ UNCHANGED <<refVars, nsess, inputCtx, outputCtx, clock, ws, prom, closeReq, capture>>
  /\ UNCHANGED <<units, suspended, translating, wall, utilVars, capVars>>

\* getUserMedia rejects: the catch block
MediaDenied(s) ==
  /\ Quiet
  /\ pc[s] = "media"
  /\ connecting' = FALSE
  /\ topic' = NoTopic
  /\ pc' = [pc EXCEPT ![s] = "failed"]
  /\ UNCHANGED <<connected, transcript, liveUserText, liveModelText>>
  /\ UNCHANGED <<refVars, nsess, inputCtx, outputCtx, clock, ws, prom, closeReq, capture>>
  /\ UNCHANGED <<units, suspended, translating, wall, utilVars, capVars>>

\* ------------------------------------------------------------ callbacks
\* onopen of session s.  The transport fulfils the promise returned by
\* connect in the task that delivers onopen, so the then-callback that cleanup
\* registered on the pending promise, if any, closes the session here.
OnOpen(s) ==
  /\ Quiet
  /\ ws[s] = "connecting"
  /\ connected' = TRUE
  /\ connecting' = FALSE
  /\ capture' = [capture EXCEPT ![s] = TRUE]
  /\ prom' = [prom EXCEPT ![s] = "resolved"]
  /\ ws' = IF closeReq[s] THEN sessionClose([ws EXCEPT ![s] = "open"], s)
           ELSE [ws EXCEPT ![s] = "open"]
  /\ closeReq' = [closeReq EXCEPT ![s] = FALSE]
  /\ UNCHANGED <<topic, transcript, liveUserText, liveModelText>>
  /\ UNCHANGED <<refVars, nsess, pc, inputCtx, outputCtx, clock>>
  /\ UNCHANGED <<units, suspended, translating, wall, utilVars, capVars>>

\* the promise returned by connect rejects; no callback is delivered
ConnectReject(s) ==
  /\ Quiet
  /\ ws[s] = "connecting"
  /\ ws' = [ws EXCEPT ![s] = "closed"]
  /\ prom' = [prom EXCEPT ![s] = "rejected"]
  /\ UNCHANGED <<compVars, refVars, nsess, pc, inputCtx, outputCtx, clock, closeReq, capture>>
  /\ UNCHANGED <<units, suspended, translating, wall, utilVars, capVars>>

\* the frame goes to the session the component holds
sessionRefCurrent(s) == sessionRef

\* sessionPromise in the closure of onaudioprocess: the promise connect
\* returned to the startSession call of session s
sessionPromise(s) == s

\* the call is put ahead of the calls made before
sendRealtimeInputFirst(log, call) == <<call>> \o log

\* s.sendRealtimeInput({ media: pcmBlob }) on the transport
sendRealtimeInput(log, call) == Append(log, call)

\* scriptProcessor.onaudioprocess of session s: the next frame of its input
\* context is encoded, and the then-callback on sessionPromise, which runs at
\* once on a fulfilled promise and never on a rejected one, sends it
OnAudioProcess(B, s) ==
  /\ Quiet
  /\ capture[s]
  /\ inputCtx[s] = "running"
  /\ frames[s] < B.frames
  /\ frames' = [frames EXCEPT ![s] = frames[s] + 1]
  /\ LET to == sessionPromise(s)
     IN sent' = IF to # NoSession /\ prom[to] = "resolved"
                THEN sendRealtimeInput(sent, [by |-> s, frame |-> frames[s] + 1,
                                              to |-> to, ws |-> ws[to]])
                ELSE sent
  /\ UNCHANGED <<compVars, refVars, sessVars>>
  /\ UNCHANGED <<units, suspended, translating, wall, utilVars>>

\* the inbound messages of a scope: any combination of the four payload kinds
Messages(B) ==
  { m \in [inT : B.deltas \cup {NoText}, outT : B.deltas \cup {NoText},
           turnComplete : B.turns, data : B.audio] :
      m.inT # NoText \/ m.outT # NoText \/ m.turnComplete \/ m.data # NoAudio }

\* the user delta of a message that carries turn-complete is dropped
accInUnlessTurn(m) ==
  IF m.inT # NoText /\ ~m.turnComplete THEN accumulatedInput \o m.inT
  ELSE accumulatedInput

\* the accumulators once the deltas of message m are appended
accInWith(m) == IF m.inT # NoText THEN accumulatedInput \o m.inT ELSE accumulatedInput
accOutWith(m) ==
  IF m.outT # NoText THEN accumulatedOutput \o m.outT ELSE accumulatedOutput

\* a fragment the decoder rejects is passed on like any other
DeliverQueuesBadAudio(B, s, m, now) ==
  LET accIn == accInWith(m)
      accOut == accOutWith(m)
      added == entriesToAdd(now, accIn, accOut)
      decoding == m.data # NoAudio /\ outputCtx[s] # "closed"
  IN /\ ws[s] \in {"open", "closing"}
     /\ Quiet \/ Len(suspended) < B.suspended
     /\ Len(accIn) <= B.textIn /\ Len(accOut) <= B.textOut
     /\ m.turnComplete => /\ Len(transcript) + Len(added) <= B.entries
                          /\ BagCardinality(translating) + Len(added) <= B.entries
     /\ decoding => Len(units) + Len(suspended) < B.chunks
     /\ IF m.turnComplete
        THEN /\ transcript' = transcript \o added
             /\ accumulatedInput' = <<>>
             /\ accumulatedOutput' = <<>>
             /\ liveUserText' = <<>>
             /\ liveModelText' = <<>>
             /\ translating' =
                  translating (+) SetToBag({added[i].id : i \in DOMAIN added})
             /\ wall' = now
        ELSE /\ transcript' = transcript
             /\ accumulatedInput' = accIn
             /\ accumulatedOutput' = accOut
             /\ liveUserText' = IF m.inT # NoText THEN accIn ELSE liveUserText
             /\ liveModelText' = IF m.outT # NoText THEN accOut ELSE liveModelText
             /\ UNCHANGED <<translating, wall>>
     /\ suspended' = IF decoding
                     THEN Append(suspended, [s |-> s, dur |-> m.data,
                                             arr |-> Len(units) + Len(suspended) + 1])
                     ELSE suspended
     /\ UNCHANGED <<connected, connecting, topic>>
     /\ UNCHANGED <<sessionRef, audioContextRef, inputContextRef, nextStartTime,
                    sourcesRef>>
     /\ UNCHANGED <<sessVars, units, utilVars, capVars>>

\* onmessage of session s for message m, up to await decodeAudioData (or to
\* its end); now is the reading of Date.now()
Deliver(B, s, m, now) ==
  LET accIn == accInWith(m)
      accOut == accOutWith(m)
      added == entriesToAdd(now, accIn, accOut)
      decoding == m.data # NoAudio /\ outputCtx[s] # "closed" /\ m.data # BadAudio
  IN /\ ws[s] \in {"open", "closing"}
     /\ Quiet \/ Len(suspended) < B.suspended
     /\ Len(accIn) <= B.textIn /\ Len(accOut) <= B.textOut
     /\ m.turnComplete => /\ Len(transcript) + Len(added) <= B.entries
                          /\ BagCardinality(translating) + Len(added) <= B.entries
     /\ decoding => Len(units) + Len(suspended) < B.chunks
     /\ IF m.turnComplete
        THEN /\ transcript' = transcript \o added
             /\ accumulatedInput' = <<>>
             /\ accumulatedOutput' = <<>>
             /\ liveUserText' = <<>>
             /\ liveModelText' = <<>>
             /\ translating' =
                  translating (+) SetToBag({added[i].id : i \in DOMAIN added})
             /\ wall' = now
        ELSE /\ transcript' = transcript
             /\ accumulatedInput' = accIn
             /\ accumulatedOutput' = accOut
             /\ liveUserText' = IF m.inT # NoText THEN accIn ELSE liveUserText
             /\ liveModelText' = IF m.outT # NoText THEN accOut ELSE liveModelText
             /\ UNCHANGED <<translating, wall>>
     /\ suspended' = IF decoding
                     THEN Append(suspended, [s |-> s, dur |-> m.data,
                                             arr |-> Len(units) + Len(suspended) + 1])
                     ELSE suspended
     /\ UNCHANGED <<connected, connecting, topic>>
     /\ UNCHANGED <<sessionRef, audioContextRef, inputContextRef, nextStartTime,
                    sourcesRef>>
     /\ UNCHANGED <<sessVars, units, utilVars, capVars>>

OnMessage(B, s) ==
  \E m \in Messages(B) :
    \E now \in IF m.turnComplete THEN wall..B.now ELSE {wall} : Deliver(B, s, m, now)

\* the handler goes on only once the translations in flight have returned
AudioResumeAfterTranslations(B) ==
  /\ suspended # <<>>
  /\ translating = EmptyBag
  /\ LET k == Head(suspended)
     IN \E now \in clock[k.s]..B.clock :
          LET startTime == startTimeOf(nextStartTime, now)
          IN /\ units' = Append(units, [s |-> k.s, start |-> startTime, dur |-> k.dur,
                                         at |-> now, st |-> "playing", arr |-> k.arr])
             /\ nextStartTime' = startTime + k.dur
             /\ sourcesRef' = sourcesRef \cup {Len(units) + 1}
             /\ clock' = [clock EXCEPT ![k.s] = now]
  /\ suspended' = Tail(suspended)
  /\ UNCHANGED <<compVars, sessionRef, audioContextRef, inputContextRef>>
  /\ UNCHANGED <<accumulatedInput, accumulatedOutput>>
  /\ UNCHANGED <<nsess, pc, inputCtx, outputCtx, ws, prom, closeReq, capture>>
  /\ UNCHANGED <<translating, wall, utilVars, capVars>>

\* the rest of onmessage once decodeAudioData has returned the buffer
AudioResume(B) ==
  /\ suspended # <<>>
  /\ LET k == Head(suspended)
     IN \E now \in clock[k.s]..B.clock :
          LET startTime == startTimeOf(nextStartTime, now)
          IN /\ units' = Append(units, [s |-> k.s, start |-> startTime, dur |-> k.dur,
                                         at |-> now, st |-> "playing", arr |-> k.arr])
             /\ nextStartTime' = startTime + k.dur
             /\ sourcesRef' = sourcesRef \cup {Len(units) + 1}
             /\ clock' = [clock EXCEPT ![k.s] = now]
  /\ suspended' = Tail(suspended)
  /\ UNCHANGED <<compVars, sessionRef, audioContextRef, inputContextRef>>
  /\ UNCHANGED <<accumulatedInput, accumulatedOutput>>
  /\ UNCHANGED <<nsess, pc, inputCtx, outputCtx, ws, prom, closeReq, capture>>
  /\ UNCHANGED <<translating, wall, utilVars, capVars>>

\* the callback leaves the source in the live set
OnEndedKeepsMember(B, i) ==
  /\ Quiet
  /\ i \in DOMAIN units
  /\ \/ /\ units[i].st = "stopped"
        /\ UNCHANGED clock
     \/ /\ units[i].st = "playing"
        /\ outputCtx[units[i].s] = "running"
        /\ \E now \in Max(clock[units[i].s], units[i].start + units[i].dur)..B.clock :
             clock' = [clock EXCEPT ![units[i].s] = now]
  /\ units' = [units EXCEPT ![i].st = "ended"]
  /\ UNCHANGED <<compVars, refVars>>
  /\ UNCHANGED <<nsess, pc, inputCtx, outputCtx, ws, prom, closeReq, capture>>
  /\ UNCHANGED <<suspended, translating, wall, utilVars, capVars>>

\* source.onended of unit i: it played to its end, or it was stopped
OnEnded(B, i) ==
  /\ Quiet
  /\ i \in DOMAIN units
  /\ \/ /\ units[i].st = "stopped"
        /\ UNCHANGED clock
     \/ /\ units[i].st = "playing"
        /\ outputCtx[units[i].s] = "running"
        /\ \E now \in Max(clock[units[i].s], units[i].start + units[i].dur)..B.clock :
             clock' = [clock EXCEPT ![units[i].s] = now]
  /\ units' = [units EXCEPT ![i].st = "ended"]
  /\ sourcesRef' = sourcesRef \ {i}
  /\ UNCHANGED <<compVars, sessionRef, audioContextRef, inputContextRef, nextStartTime>>
  /\ UNCHANGED <<accumulatedInput, accumulatedOutput>>
  /\ UNCHANGED <<nsess, pc, inputCtx, outputCtx, ws, prom, closeReq, capture>>
  /\ UNCHANGED <<suspended, translating, wall, utilVars, capVars>>

\* the request of the translateText call for entry id comes to r: the entry
\* is patched by id
TranslationReturns(id, r) ==
  /\ Quiet
  /\ id \in BagToSet(translating)
  /\ transcript' = patch(transcript, id, translateText(r))
  /\ translating' = translating (-) SetToBag({id})
  /\ UNCHANGED <<connected, connecting, topic, liveUserText, liveModelText>>
  /\ UNCHANGED <<refVars, sessVars, units, suspended, wall, utilVars, capVars>>

\* a translateText call returns
TranslationDone ==
  \E id \in BagToSet(translating), r \in Responses : TranslationReturns(id, r)

\* onclose of session s
OnClose(s) ==
  /\ Quiet
  /\ ws[s] \in {"open", "closing", "failing"}
  /\ cleanup([ws EXCEPT ![s] = "closed"])

\* onerror of session s; the close notification is still to come
OnError(s) ==
  /\ Quiet
  /\ ws[s] \in {"connecting", "open"}
  /\ cleanup([ws EXCEPT ![s] = IF ws[s] = "open" THEN "closing" ELSE "failing"])

\* click on the end-call button
EndCall ==
  /\ Quiet
  /\ connected /\ ~connecting
  /\ cleanup(ws)

\* the handlers of the session life cycle
Lifecycle(B) ==
  \/ SelectTopic(B)
  \/ \E s \in Sessions : MediaGranted(s)
  \/ \E s \in Sessions : MediaDenied(s)
  \/ \E s \in Sessions : OnOpen(s)
  \/ \E s \in Sessions : ConnectReject(s)
  \/ \E s \in Sessions : OnMessage(B, s)
  \/ \E s \in Sessions : OnClose(s)
  \/ \E s \in Sessions : OnError(s)
  \/ EndCall

\* the handlers of the playback path
Playback(B) ==
  \/ AudioResume(B)
  \/ \E i \in 1..MaxUnits : OnEnded(B, i)

Spec == Init /\ [][Lifecycle(Life) \/ Playback(Life) \/ TranslationDone]_vars
SpecRace == Init /\ [][Lifecycle(Race) \/ Playback(Race)]_vars
SpecTurn == Init /\ [][Lifecycle(Turn) \/ TranslationDone]_vars
SpecPlay == Init /\ [][Lifecycle(Play) \/ Playback(Play)]_vars
SpecMix == Init /\ [][Lifecycle(Mix) \/ Playback(Mix) \/ TranslationDone]_vars

\* the session life cycle without inbound messages, and the capture path
Capture(B) ==
  \/ SelectTopic(B)
  \/ \E s \in Sessions : MediaGranted(s)
  \/ \E s \in Sessions : MediaDenied(s)
  \/ \E s \in Sessions : OnOpen(s)
  \/ \E s \in Sessions : ConnectReject(s)
  \/ \E s \in Sessions : OnAudioProcess(B, s)
  \/ \E s \in Sessions : OnClose(s)
  \/ \E s \in Sessions : OnError(s)
  \/ EndCall

SpecCapture == Init /\ [][Capture(Cap)]_vars

\* ------------------------------------------- the audio utilities alone
\* samples next to the ends of the int16 range, to zero and to the byte
\* boundaries, CodecSub to a step; the last ones stand for numbers up to 1
EdgeSteps == {-32768, -32767, -257, -256, -255, -129, -128, -127, -1, 0, 1,
              127, 128, 255, 256, 257, 32766, 32767, 32768}
Samples ==
  {x \in {c * CodecSub + d : c \in EdgeSteps, d \in (1 - CodecSub)..(CodecSub - 1)} :
     -32768 * CodecSub <= x /\ x <= 32768 * CodecSub}
FrameSamples == {-32768 * CodecSub, -1, 0, CodecSub + 1, 32767 * CodecSub}
Frames ==
  {<<>>} \cup {<<x>> : x \in Samples}
         \cup UNION {[1..n -> FrameSamples] : n \in 2..CodecFrame}

\* payload lengths from 0 to 2^32 - 1 and sample rates whose byte rate fits
\* the header
Lengths ==
  {[hi |-> 0, lo |-> 0], [hi |-> 0, lo |-> 1], [hi |-> 0, lo |-> 255],
   [hi |-> 0, lo |-> 256], [hi |-> 0, lo |-> 48000], [hi |-> 0, lo |-> 65499],
   [hi |-> 0, lo |-> 65500], [hi |-> 0, lo |-> 65535], [hi |-> 1, lo |-> 0],
   [hi |-> 255, lo |-> 65535], [hi |-> 256, lo |-> 0], [hi |-> 32767, lo |-> 65535],
   [hi |-> 32768, lo |-> 0], [hi |-> 65535, lo |-> 65499],
   [hi |-> 65535, lo |-> 65500], [hi |-> 65535, lo |-> 65535]}
Rates ==
  {[hi |-> 0, lo |-> 8000], [hi |-> 0, lo |-> 16000], [hi |-> 0, lo |-> 24000],
   [hi |-> 0, lo |-> 44100], [hi |-> 0, lo |-> 48000], [hi |-> 0, lo |-> 65535],
   [hi |-> 2, lo |-> 60928], [hi |-> 32767, lo |-> 65535]}

\* a frame is about to be encoded, or a header is about to be built
InitCodec ==
  /\ InitLiveTutor
  /\ pcmBlob = <<>> /\ channelData = <<>>
  /\ \/ /\ pcm \in Frames
        /\ wav = NoWav
        /\ utilPc = "frame"
     \/ /\ pcm = <<>>
        /\ wav \in [bufferLength : Lengths, sampleRate : Rates, header : {<<>>}]
        /\ utilPc = "args"

\* const pcmBlob = createBlob(inputData)
CreateBlob ==
  /\ utilPc = "frame"
  /\ pcmBlob' = createBlob(pcm)
  /\ utilPc' = "encoded"
  /\ UNCHANGED <<pcm, channelData, wav>>
  /\ UNCHANGED <<compVars, refVars, sessVars, units, suspended, translating, wall, capVars>>

\* decodeAudioData(decode(data), outputCtx, 24000, 1), channel 0
DecodeAudioData ==
  /\ utilPc = "encoded"
  /\ channelData' = decodeAudioData(decode(pcmBlob), 1)[1]
  /\ utilPc' = "decoded"
  /\ UNCHANGED <<pcm, pcmBlob, wav>>
  /\ UNCHANGED <<compVars, refVars, sessVars, units, suspended, translating, wall, capVars>>

\* const wavHeader = getWavHeader(pcmBytes.length, 24000)
GetWavHeader ==
  /\ utilPc = "args"
  /\ wav' = [wav EXCEPT !.header = getWavHeader(wav.bufferLength, wav.sampleRate)]
  /\ utilPc' = "header"
  /\ UNCHANGED <<pcm, pcmBlob, channelData>>
  /\ UNCHANGED <<compVars, refVars, sessVars, units, suspended, translating, wall, capVars>>

SpecCodec == InitCodec /\ [][CreateBlob \/ DecodeAudioData \/ GetWavHeader]_vars

\* ================================================================ claims
\* a handler that runs the teardown routine
Teardown == EndCall \/ \E s \in Sessions : OnClose(s) \/ OnError(s)

\* session t is fully torn down: its connection is neither being set up nor
\* open, its two contexts are not running, no unit of it is in the live set
TornDown(t) ==
  /\ ws[t] \notin {"connecting", "open"}
  /\ outputCtx[t] # "running" /\ inputCtx[t] # "running"
  /\ \A i \in sourcesRef : units[i].s # t

\* session s is Open: onopen was delivered and no teardown closed it
SessionOpen(s) == ws[s] = "open" /\ outputCtx[s] = "running"

\* C1: the units of one session, in the order they were scheduled, do not
\* overlap (each starts at or after the end of every earlier unit of that
\* session), and no unit starts before the clock reading at which it was
\* scheduled.
C1_PlaybackScheduling ==
  \A j \in DOMAIN units :
    /\ units[j].start >= units[j].at
    /\ \A i \in 1..(j - 1) :
         units[i].s = units[j].s => units[j].start >= units[i].start + units[i].dur

\* C2: an onclose or onerror of a session that is already torn down, delivered
\* after a later session was started, leaves the latest session alone: its
\* contexts, its connection handle, its units, the topic, the transcript and
\* the accumulators do not change.
C2_SessionIsolation ==
  [][\A s \in Sessions :
       (s < nsess /\ outputCtx[s] = "closed" /\ (OnClose(s) \/ OnError(s))) =>
         /\ outputCtx'[nsess] = outputCtx[nsess]
         /\ inputCtx'[nsess] = inputCtx[nsess]
         /\ sessionRef = nsess => sessionRef' = nsess
         /\ \A i \in DOMAIN units : units[i].s = nsess => units'[i] = units[i]
         /\ topic' = topic /\ transcript' = transcript
         /\ accumulatedInput' = accumulatedInput
         /\ accumulatedOutput' = accumulatedOutput]_vars

\* the state cleanup leaves: the contexts the refs hold are closed, the live
\* set is empty, the handle is null, topic, transcript and accumulators are
\* empty
CleanedUp(c) ==
  /\ c.audioContextRef # NoSession => c.outputCtx[c.audioContextRef] = "closed"
  /\ c.inputContextRef # NoSession => c.inputCtx[c.inputContextRef] = "closed"
  /\ c.sourcesRef = {} /\ c.sessionRef = NoSession
  /\ c.topic = NoTopic /\ c.transcript = <<>>
  /\ c.accumulatedInput = <<>> /\ c.accumulatedOutput = <<>>

\* C3: in every reachable state, cleanup leaves the state CleanedUp, and a
\* second cleanup right after the first changes nothing.
C3_TeardownIdempotent ==
  LET once == cleanupOf(cleanupState(ws))
  IN CleanedUp(once) /\ cleanupOf(once) = once

\* a state in which cleanup has everything to release, reached after an
\* earlier session was torn down
C3_Witness ==
  /\ \E s \in Sessions : outputCtx[s] = "closed"
  /\ sessionRef # NoSession /\ sourcesRef # {}
  /\ audioContextRef # NoSession /\ outputCtx[audioContextRef] = "running"
  /\ inputCtx[inputContextRef] = "running"
  /\ topic # NoTopic /\ transcript # <<>> /\ accumulatedInput # <<>>
  /\ ~CleanedUp(cleanupState(ws))

\* C4: the end-call click, onclose and onerror all leave the same state: every
\* unit of the live set is stopped and the live set is empty, the two contexts
\* the component holds are closed, the handle is null, connected and
\* connecting are false, topic, transcript, accumulators and live texts are
\* empty.
C4_TeardownState ==
  [][Teardown =>
       /\ \A i \in sourcesRef : units'[i].st # "playing"
       /\ sourcesRef' = {}
       /\ audioContextRef # NoSession /\ outputCtx'[audioContextRef] = "closed"
       /\ inputContextRef # NoSession /\ inputCtx'[inputContextRef] = "closed"
       /\ sessionRef' = NoSession
       /\ ~connected' /\ ~connecting'
       /\ topic' = NoTopic /\ transcript' = <<>>
       /\ accumulatedInput' = <<>> /\ accumulatedOutput' = <<>>
       /\ liveUserText' = <<>> /\ liveModelText' = <<>>]_vars

\* a teardown has stopped a unit that was playing
C4_Witness ==
  /\ \E i \in DOMAIN units : units[i].st = "stopped"
  /\ sourcesRef = {} /\ sessionRef = NoSession /\ ~connected /\ ~connecting
  /\ outputCtx[audioContextRef] = "closed" /\ inputCtx[inputContextRef] = "closed"

\* C5: once the contexts of a session are closed by teardown, no callback of
\* that session makes connected or connecting true.
C5_ClosedTerminal ==
  [][\A s \in Sessions :
       (/\ outputCtx[s] = "closed"
        /\ OnOpen(s) \/ OnMessage(Life, s) \/ OnClose(s) \/ OnError(s)) =>
         /\ connected' => connected
         /\ connecting' => connecting]_vars

\* C6: startSession is entered only when connected and connecting are false,
\* and when it creates the contexts and issues connect every other session
\* that was started is fully torn down.
C6_OneSession ==
  [][/\ SelectTopic(Race) => ~connected /\ ~connecting
     /\ \A s \in Sessions :
          MediaGranted(s) =>
            \A t \in Sessions \ {s} : pc[t] = "started" => TornDown(t)]_vars

\* C7: whenever a session is started from topic selection, the transcript and
\* the two accumulators are empty.
C7_NoStateSurvives ==
  [][SelectTopic(Life) =>
       /\ transcript = <<>>
       /\ accumulatedInput = <<>> /\ accumulatedOutput = <<>>]_vars

\* C8: a message delivered to a session that is not Open leaves the two
\* accumulators and the transcript unchanged.
C8_MutatedOnlyWhileOpen ==
  [][\A s \in Sessions :
       (OnMessage(Life, s) /\ ~SessionOpen(s)) =>
         UNCHANGED <<accumulatedInput, accumulatedOutput, transcript>>]_vars

\* n blanks
Blanks(n) == [i \in 1..n |-> " "]

\* t is x without its leading and trailing blanks
IsTrimOf(t, x) ==
  /\ t # <<>> => t[1] # " " /\ t[Len(t)] # " "
  /\ \E i, j \in 0..Len(x) : x = Blanks(i) \o t \o Blanks(j)

\* the entries a step appends to the transcript
Appended == SubSeq(transcript', Len(transcript) + 1, Len(transcript'))

\* a step that handles message m, which carries the turn-complete signal
TurnCompleteStep(m) ==
  /\ m.turnComplete
  /\ \E s \in Sessions, now \in 0..TurnNow : Deliver(Turn, s, m, now)

\* C9: on turn-complete the transcript keeps its entries and gets, for each
\* side whose accumulated text is not all blanks, exactly one entry of that
\* role holding the text without its leading and trailing blanks, and none for
\* a side whose text is all blanks; both accumulators are empty afterwards.
C9_TurnFinalization ==
  [][\A m \in Messages(Turn) :
       TurnCompleteStep(m) =>
         /\ Len(transcript') >= Len(transcript)
         /\ SubSeq(transcript', 1, Len(transcript)) = transcript
         /\ \A role \in {"user", "model"} :
              LET acc == IF role = "user" THEN accInWith(m) ELSE accOutWith(m)
                  mine == {k \in DOMAIN Appended : Appended[k].role = role}
              IN IF \A k \in DOMAIN acc : acc[k] = " "
                 THEN mine = {}
                 ELSE /\ Cardinality(mine) = 1
                      /\ \A k \in mine : /\ Appended[k].text # <<>>
                                         /\ IsTrimOf(Appended[k].text, acc)
         /\ \A k \in DOMAIN Appended : Appended[k].role \in {"user", "model"}
         /\ accumulatedInput' = <<>> /\ accumulatedOutput' = <<>>]_vars

\* one user entry with an inner blank is all a finalized turn left
C9_Witness ==
  /\ Len(transcript) = 1
  /\ transcript[1].role = "user" /\ transcript[1].text = <<"a", " ", "a">>
  /\ accumulatedInput = <<>> /\ accumulatedOutput = <<>>

\* C10: a turn-complete with both accumulated texts not all blanks appends
\* exactly two entries, the user entry right before the model entry.
C10_TurnOrder ==
  [][\A m \in Messages(Turn) :
       (/\ TurnCompleteStep(m)
        /\ \E k \in DOMAIN accInWith(m) : accInWith(m)[k] # " "
        /\ \E k \in DOMAIN accOutWith(m) : accOutWith(m)[k] # " ") =>
         /\ Len(transcript') = Len(transcript) + 2
         /\ transcript'[Len(transcript) + 1].role = "user"
         /\ transcript'[Len(transcript) + 2].role = "model"]_vars

\* a turn with both sides finalized: the user entry, then the model entry
C10_Witness ==
  /\ Len(transcript) = 2
  /\ transcript[1].role = "user" /\ transcript[2].role = "model"
  /\ transcript[1].id[1] = transcript[2].id[1]

\* the entries of the transcript whose id is id
EntriesWithId(id) == {i \in DOMAIN transcript : transcript[i].id = id}

\* the entries a step changes
Changed == {i \in DOMAIN transcript :
              i \notin DOMAIN transcript' \/ transcript'[i] # transcript[i]}

\* C11: a step that is not a teardown removes no entry, moves none and changes
\* no id, role or text; an entry is appended without translation; a
\* translation is set only by the completion of a translation, and the
\* completion for an id changes exactly the one entry with that id.
C11_EntriesImmutable ==
  [][~Teardown =>
       /\ Len(transcript') >= Len(transcript)
       /\ \A i \in DOMAIN transcript :
            /\ transcript'[i].id = transcript[i].id
            /\ transcript'[i].role = transcript[i].role
            /\ transcript'[i].text = transcript[i].text
       /\ \A i \in DOMAIN transcript' \ DOMAIN transcript :
            transcript'[i].translation = Absent
       /\ Changed # {} =>
            /\ Cardinality(Changed) = 1
            /\ \E id \in BagToSet(translating), r \in Responses :
                 /\ TranslationReturns(id, r)
                 /\ \A i \in Changed : transcript[i].id = id]_vars

\* C12: when the request for an entry fails, the entries with its id keep
\* translation absent, every entry stays in the transcript as it was, and no
\* request is issued again.
C12_FailureLeavesAbsent ==
  [][\A id \in BagToSet(translating) :
       TranslationReturns(id, Failure) =>
         /\ \A i \in EntriesWithId(id) : transcript'[i].translation = Absent
         /\ transcript' = transcript
         /\ translating' = translating (-) SetToBag({id})]_vars

\* C12 as the code has it: when the request for an entry fails, the entries
\* with its id get the empty string as translation, every entry keeps its
\* place, id, role and text, entries with another id do not change, and no
\* request is issued again.
C12_FailureSetsEmpty ==
  [][\A id \in BagToSet(translating) :
       TranslationReturns(id, Failure) =>
         /\ Len(transcript') = Len(transcript)
         /\ \A i \in DOMAIN transcript :
              /\ transcript'[i].id = transcript[i].id
              /\ transcript'[i].role = transcript[i].role
              /\ transcript'[i].text = transcript[i].text
              /\ transcript'[i].translation =
                   IF transcript[i].id = id THEN "" ELSE transcript[i].translation
         /\ translating' = translating (-) SetToBag({id})]_vars

\* both entries of a turn are in the transcript, the request for the user
\* entry has returned the empty string, the one for the model entry is pending
C12_Witness ==
  /\ Len(transcript) = 2
  /\ transcript[1].role = "user" /\ transcript[1].translation = ""
  /\ transcript[2].role = "model" /\ transcript[2].translation = Absent
  /\ translating = SetToBag({transcript[2].id})

\* C13: a translation that returns when no entry has its id changes nothing
\* but the set of requests in flight.
C13_LateTranslationNoOp ==
  [][\A id \in BagToSet(translating), r \in Responses :
       (TranslationReturns(id, r) /\ EntriesWithId(id) = {}) =>
         /\ transcript' = transcript
         /\ UNCHANGED <<connected, connecting, topic, liveUserText, liveModelText>>
         /\ UNCHANGED <<refVars, sessVars, units, suspended>>]_vars

\* teardown has emptied the transcript while a translation of one of its
\* entries is still in flight
C13_Witness ==
  /\ \E s \in Sessions : outputCtx[s] = "closed"
  /\ transcript = <<>>
  /\ translating # EmptyBag

\* C14: of two chunks of one session, the one whose message was delivered
\* first is scheduled first and has ended when the other starts.
C14_ArrivalOrder ==
  \A i, j \in DOMAIN units :
    (units[i].s = units[j].s /\ units[i].arr < units[j].arr) =>
      /\ i < j
      /\ units[i].start + units[i].dur <= units[j].start

\* C15: when getUserMedia is refused for a session, the component goes back
\* to topic selection (connecting false, topic null) and starts nothing anew;
\* for that session no context is ever created, no connect is ever issued,
\* it is never open and it is not started again.
C15_DenialIsFatal ==
  [][\A s \in Sessions :
       /\ MediaDenied(s) =>
            /\ ~connecting' /\ topic' = NoTopic
            /\ nsess' = nsess
            /\ inputCtx' = inputCtx /\ outputCtx' = outputCtx
            /\ ws' = ws /\ prom' = prom /\ sessionRef' = sessionRef
       /\ (MediaDenied(s) \/ pc[s] = "failed") =>
            /\ pc'[s] = "failed"
            /\ inputCtx'[s] = "none" /\ outputCtx'[s] = "none"
            /\ ws'[s] = "none" /\ prom'[s] = "none" /\ ~capture'[s]
            /\ sessionRef' # s]_vars

\* a session was refused the microphone and the component is back at topic
\* selection
C15_Witness ==
  /\ \E s \in Sessions : pc[s] = "failed" /\ inputCtx[s] = "none" /\ ws[s] = "none"
  /\ ~connecting /\ ~connected /\ topic = NoTopic

\* the viability of session s has ended: the microphone was refused, the
\* connect call failed, the transport reported an error or a close, or the
\* connection was closed on request
Ended(s) == pc[s] = "failed" \/ ws[s] \in {"closing", "closed", "failing"}

\* C16: once the viability of a session has ended, whatever the cause, none of
\* its two contexts is open, no unit of it is in the live set and the
\* connection handle does not hold it.
C16_ErrorsReleaseResources ==
  \A s \in Sessions :
    Ended(s) =>
      /\ inputCtx[s] # "running" /\ outputCtx[s] # "running"
      /\ \A i \in sourcesRef : units[i].s # s
      /\ sessionRef # s

\* a teardown has ended session t: it closed its output context, or asked its
\* connection to close, or ran on its onclose or onerror
TeardownRan(t) ==
  outputCtx[t] = "closed" \/ ws[t] \in {"closing", "closed", "failing"}

\* C19: no step schedules a unit of a session that a teardown has ended, or
\* adds one to the live set.
C19_TeardownCancelsPlayback ==
  [][/\ \A i \in DOMAIN units' \ DOMAIN units : ~TeardownRan(units'[i].s)
     /\ \A i \in sourcesRef' \ sourcesRef : ~TeardownRan(units'[i].s)]_vars

\* C20: once the connect call of the session started last has resolved or
\* failed, the component is not Connecting: it is Open or back at topic
\* selection.
C20_ConnectingEnds ==
  \A s \in Sessions :
    (s = nsess /\ prom[s] \in {"resolved", "rejected"}) => ~connecting

\* C17: a frame encoded by createBlob and decoded by decodeAudioData has as
\* many samples as it had, and each sample that was within [-1, 32767/32768]
\* comes back in its place within one step of 1/32768.
C17_CodecRoundTrip ==
  utilPc = "decoded" =>
    /\ Len(channelData) = Len(pcm)
    /\ \A i \in DOMAIN pcm :
         (-32768 * CodecSub <= pcm[i] /\ pcm[i] <= 32767 * CodecSub) =>
           /\ channelData[i] - pcm[i] <= CodecSub
           /\ pcm[i] - channelData[i] <= CodecSub

\* a frame of three samples, -1, a small positive one and 32767/32768, has
\* made the round trip and the middle one came back changed
C17_Witness ==
  /\ utilPc = "decoded"
  /\ pcm = <<-32768 * CodecSub, CodecSub + 1, 32767 * CodecSub>>
  /\ channelData = <<-32768 * CodecSub, CodecSub, 32767 * CodecSub>>

\* the 16-bit and 32-bit little-endian quantities at 0-based offset k of the
\* header
U16At(k) == wav.header[k + 1] + 256 * wav.header[k + 2]
U32At(k) == [hi |-> U16At(k + 2), lo |-> U16At(k)]

\* C18: the header has 44 bytes; bytes 20..21 hold 1, 22..23 hold 1, 24..27
\* the sample rate, 28..31 twice the sample rate, 32..33 hold 2, 34..35 hold
\* 16, 40..43 the payload length n, and, when 36 + n fits in 32 bits, bytes
\* 4..7 hold 36 + n.
C18_WavHeader ==
  utilPc = "header" =>
    LET n == wav.bufferLength
        r == wav.sampleRate
    IN /\ Len(wav.header) = 44
       /\ \A k \in DOMAIN wav.header : wav.header[k] \in 0..255
       /\ (n.hi < 65535 \/ n.lo <= 65499) =>
            U32At(4).lo - 36 - n.lo = 65536 * (n.hi - U32At(4).hi)
       /\ U16At(20) = 1 /\ U16At(22) = 1
       /\ U32At(24) = r
       /\ U32At(28).lo - 2 * r.lo = 65536 * (2 * r.hi - U32At(28).hi)
       /\ U16At(32) = 2 /\ U16At(34) = 16
       /\ U32At(40) = n

\* the header of the largest payload, 2^32 - 37 bytes, at 24000 Hz: bytes
\* 4..7 hold 2^32 - 1
C18_Witness ==
  /\ utilPc = "header"
  /\ wav.bufferLength = [hi |-> 65535, lo |-> 65499]
  /\ wav.sampleRate = [hi |-> 0, lo |-> 24000]
  /\ SubSeq(wav.header, 5, 8) = <<255, 255, 255, 255>>
  /\ SubSeq(wav.header, 25, 32) = <<192, 93, 0, 0, 128, 187, 0, 0>>

\* C21: the entries of the transcript have pairwise distinct ids, so a patch
\* by id matches at most one entry.
C21_UniqueIds ==
  \A i, j \in DOMAIN transcript : i # j => transcript[i].id # transcript[j].id

\* x has a character that is not a blank
NonBlank(x) == \E k \in DOMAIN x : x[k] # " "

\* a step that handles message m of session s while s is Open
OpenMessageStep(s, m) ==
  SessionOpen(s) /\ \E now \in 0..MixNow : Deliver(Mix, s, m, now)

\* C22: a message handled while its session is Open has every payload it
\* carries handled, whatever else it carries: a delta is appended to its
\* accumulator; a turn-complete finalizes the accumulated texts, the deltas
\* of the same message included, and empties both accumulators; a decodable
\* audio fragment is decoded and, when the handler resumes, scheduled and put
\* in the live set.
C22_PayloadRouting ==
  [][/\ \A s \in Sessions, m \in Messages(Mix) :
          OpenMessageStep(s, m) =>
            LET accIn == IF m.inT # NoText THEN accumulatedInput \o m.inT
                         ELSE accumulatedInput
                accOut == IF m.outT # NoText THEN accumulatedOutput \o m.outT
                          ELSE accumulatedOutput
            IN /\ IF m.turnComplete
                  THEN /\ accumulatedInput' = <<>> /\ accumulatedOutput' = <<>>
                       /\ SubSeq(transcript', 1, Len(transcript)) = transcript
                       /\ Len(Appended) = (IF NonBlank(accIn) THEN 1 ELSE 0)
                                          + (IF NonBlank(accOut) THEN 1 ELSE 0)
                       /\ NonBlank(accIn) =>
                            \E k \in DOMAIN Appended :
                              /\ Appended[k].role = "user"
                              /\ IsTrimOf(Appended[k].text, accIn)
                       /\ NonBlank(accOut) =>
                            \E k \in DOMAIN Appended :
                              /\ Appended[k].role = "model"
                              /\ IsTrimOf(Appended[k].text, accOut)
                  ELSE /\ accumulatedInput' = accIn
                       /\ accumulatedOutput' = accOut
                       /\ transcript' = transcript
               /\ IF m.data \in 1..MixDur
                  THEN /\ Len(suspended') = Len(suspended) + 1
                       /\ suspended'[Len(suspended')].s = s
                       /\ suspended'[Len(suspended')].dur = m.data
                       /\ SubSeq(suspended', 1, Len(suspended)) = suspended
                  ELSE suspended' = suspended
     /\ AudioResume(Mix) =>
          /\ Len(units') = Len(units) + 1
          /\ SubSeq(units', 1, Len(units)) = units
          /\ units'[Len(units')].s = Head(suspended).s
          /\ units'[Len(units')].dur = Head(suspended).dur
          /\ units'[Len(units')].st = "playing"
          /\ sourcesRef' = sourcesRef \cup {Len(units')}
          /\ suspended' = Tail(suspended)
     /\ Len(suspended') < Len(suspended) => AudioResume(Mix)]_vars

\* the first message of a session carried both deltas, turn-complete and an
\* audio fragment: both entries are in the transcript, their translations are
\* requested, the accumulators are empty and the handler waits for the decoder
C22_Witness ==
  /\ Len(transcript) = 2
  /\ transcript[1].role = "user" /\ transcript[1].text = <<"a">>
  /\ transcript[2].role = "model" /\ transcript[2].text = <<"a">>
  /\ translating = SetToBag({transcript[1].id, transcript[2].id})
  /\ accumulatedInput = <<>> /\ accumulatedOutput = <<>>
  /\ suspended = <<[s |-> 1, dur |-> 1, arr |-> 1]>>
  /\ units = <<>>

\* the two blocks applied to state c in either order
TurnThenAudio(c, idPrefix, s, dur, now, arr) ==
  scheduleChunk(finalizeTurn(c, idPrefix), s, dur, now, arr)
AudioThenTurn(c, idPrefix, s, dur, now, arr) ==
  finalizeTurn(scheduleChunk(c, s, dur, now, arr), idPrefix)

\* C23: in every state in which a session is Open, for a message with an
\* audio fragment and turn-complete, finalizing the turn and then scheduling
\* the audio gives the same transcript, accumulators, nextStartTime, units and
\* live set as scheduling the audio and then finalizing the turn; and the two
\* blocks are what the handler does: the step that handles the message
\* finalizes the turn, the step that resumes it schedules the audio.
C23_Commute ==
  /\ [](\A s \in Sessions :
          SessionOpen(s) =>
            \A idPrefix \in wall..MixNow, dur \in 1..MixDur, now \in clock[s]..MixClock :
              LET a == TurnThenAudio(handlerState, idPrefix, s, dur, now, 1)
                  b == AudioThenTurn(handlerState, idPrefix, s, dur, now, 1)
              IN /\ a.transcript = b.transcript
                 /\ a.accumulatedInput = b.accumulatedInput
                 /\ a.accumulatedOutput = b.accumulatedOutput
                 /\ a.nextStartTime = b.nextStartTime
                 /\ a.units = b.units
                 /\ a.sourcesRef = b.sourcesRef)
  /\ [][/\ \A s \in Sessions, m \in Messages(Mix), idPrefix \in 0..MixNow :
             (m.turnComplete /\ Deliver(Mix, s, m, idPrefix)) =>
               handlerState' =
                 finalizeTurn([handlerState EXCEPT !.accumulatedInput = accInWith(m),
                                                   !.accumulatedOutput = accOutWith(m)],
                              idPrefix)
        /\ AudioResume(Mix) =>
             \E now \in 0..MixClock :
               handlerState' =
                 scheduleChunk(handlerState, Head(suspended).s, Head(suspended).dur,
                               now, Head(suspended).arr)]_vars

\* a message with a model delta, turn-complete and an audio fragment was
\* handled to its end: the entry is in the transcript and the unit plays
C23_Witness ==
  /\ Len(transcript) = 1 /\ transcript[1].role = "model"
  /\ accumulatedInput = <<>> /\ accumulatedOutput = <<>>
  /\ Len(units) = 1 /\ units[1].st = "playing" /\ units[1].start = 1
  /\ nextStartTime = 2 /\ sourcesRef = {1}
  /\ suspended = <<>>

\* the units of session s scheduled so far, and the last of them
UnitsOf(s) == {i \in DOMAIN units : units[i].s = s}
LastUnitOf(s) == CHOOSE i \in UnitsOf(s) : \A j \in UnitsOf(s) : j <= i

\* C24: a chunk scheduled while the clock has not passed the cursor starts
\* exactly where the previous unit of its session ends; it starts later than
\* that only when it is scheduled after the previous unit's end, and then it
\* starts at the clock reading.
C24_Gapless ==
  [][AudioResume(Race) =>
       LET s == Head(suspended).s
           u == units'[Len(units')]
       IN UnitsOf(s) # {} =>
            LET p == units[LastUnitOf(s)]
            IN /\ u.at <= nextStartTime => u.start = p.start + p.dur
               /\ u.start # p.start + p.dur =>
                    /\ u.at > p.start + p.dur
                    /\ u.start = u.at]_vars

\* C25: every unit of the live set was scheduled and its completion callback
\* has not fired; a unit enters the live set in the step that schedules it and
\* in no other; it leaves the set only when its own completion callback fires
\* or when a teardown clears the set; and the completion callback of a unit
\* that is not in the set leaves the set as it is.
C25_LiveSet ==
  /\ [](\A i \in sourcesRef : i \in DOMAIN units /\ units[i].st # "ended")
  /\ [][/\ \A i \in DOMAIN units' \ DOMAIN units : i \in sourcesRef'
        /\ \A i \in sourcesRef' \ sourcesRef : i \notin DOMAIN units
        /\ \A i \in sourcesRef \ sourcesRef' : OnEnded(Race, i) \/ Teardown
        /\ Teardown => sourcesRef' = {}
        /\ \A i \in DOMAIN units :
             OnEnded(Race, i) =>
               /\ i \notin sourcesRef'
               /\ i \notin sourcesRef => sourcesRef' = sourcesRef]_vars

\* the completion callback of a unit has fired before the clock reached the
\* unit's end, so a teardown had stopped it; the live set is empty
C25_Witness ==
  /\ sourcesRef = {}
  /\ \E i \in DOMAIN units :
       /\ units[i].st = "ended"
       /\ clock[units[i].s] < units[i].start + units[i].dur

\* C26: the handling of a message whose audio fragment cannot be decoded
\* leaves the cursor, the scheduled units, the live set and the queue of
\* resuming handlers unchanged and tears nothing down (connection, contexts,
\* handle, connected, connecting and topic stay as they are); and every chunk
\* that is scheduled, before or after such a failure, starts at
\* max(nextStartTime, now) and moves the cursor to its end.
C26_DecodeFailureLocal ==
  [][/\ \A s \in Sessions, m \in Messages(Mix), now \in 0..MixNow :
          (m.data = BadAudio /\ Deliver(Mix, s, m, now)) =>
            /\ UNCHANGED <<nextStartTime, sourcesRef, units, suspended>>
            /\ UNCHANGED <<ws, prom, closeReq, outputCtx, inputCtx, sessionRef>>
            /\ UNCHANGED <<connected, connecting, topic>>
     /\ AudioResume(Mix) =>
          LET u == units'[Len(units')]
          IN /\ u.start = Max(nextStartTime, u.at)
             /\ u.dur >= 1
             /\ nextStartTime' = u.start + u.dur]_vars

\* a message with a user delta and an undecodable fragment was handled (or
\* one with the delta alone), and a later chunk plays: the session is open,
\* the delta is accumulated, the chunk is scheduled by the normal rule
C26_Witness ==
  /\ SessionOpen(1)
  /\ accumulatedInput = <<"a">> /\ liveUserText = <<"a">>
  /\ Len(units) = 1 /\ units[1].st = "playing"
  /\ units[1].at = 1 /\ units[1].start = 1 /\ nextStartTime = 2
  /\ sourcesRef = {1}

\* the sendRealtimeInput calls made for frames of session s, in call order
SentBy(s) == SelectSeq(sent, LAMBDA c : c.by = s)

\* C27: a session has frames captured and sent only once its onopen has been
\* delivered (the capture callback is installed and the connection promise is
\* fulfilled), and every frame is sent to the connection of the session whose
\* onopen installed the callback that captured it.
C27_CaptureOnOpen ==
  /\ \A s \in Sessions :
       (frames[s] > 0 \/ SentBy(s) # <<>>) =>
         /\ capture[s]
         /\ prom[s] = "resolved"
         /\ ws[s] \notin {"none", "connecting"}
  /\ \A k \in DOMAIN sent : sent[k].to = sent[k].by

\* session 2 has sent a frame on its own connection while the component
\* holds session 3
C27_Witness ==
  /\ sessionRef = 3
  /\ \E k \in DOMAIN sent : sent[k].by = 2 /\ sent[k].to = 2

\* C28: no sendRealtimeInput call is made on the connection of a session after
\* a teardown has ended that session: every call finds the connection open.
C28_NoSendAfterTeardown ==
  \A k \in DOMAIN sent : sent[k].ws = "open"

\* C29: the calls made for the frames of one session carry the frames in the
\* order they were captured, each captured frame once and no other: the k-th
\* call of a session carries its k-th frame.
C29_CaptureOrder ==
  \A s \in Sessions :
    /\ Len(SentBy(s)) <= frames[s]
    /\ \A k \in DOMAIN SentBy(s) : SentBy(s)[k].frame = k

\* two sessions have each sent two frames, their calls interleaved
C29_Witness ==
  /\ Len(sent) = 4
  /\ sent[1].by # sent[2].by
  /\ \E s, t \in Sessions : s # t /\ Len(SentBy(s)) = 2 /\ Len(SentBy(t)) = 2

\* message m is within what the scope Mix lets a behaviour hold
WithinMix(m) ==
  LET added == entriesToAdd(wall, accInWith(m), accOutWith(m))
  IN /\ Len(accInWith(m)) <= MixText /\ Len(accOutWith(m)) <= MixText
     /\ m.turnComplete => /\ Len(transcript) + Len(added) <= MixEntries
                          /\ BagCardinality(translating) + Len(added) <= MixEntries
     /\ m.data \in 1..MixDur => Len(units) + Len(suspended) < MixChunks

\* C30: a turn-complete issues one translation request for each entry it
\* appends and no other; when a request returns a translation and entries
\* with its id are in the transcript, they carry that translation right
\* after; and while translations are in flight, the next message of an Open
\* session can be handled and a handler waiting for the decoder can go on and
\* schedule its chunk.
C30_Translation ==
  /\ [][/\ \A s \in Sessions, m \in Messages(Mix), now \in 0..MixNow :
             Deliver(Mix, s, m, now) =>
               /\ BagCardinality(translating') =
                    BagCardinality(translating) + Len(Appended)
               /\ \A id \in {Appended[k].id : k \in DOMAIN Appended} :
                    CopiesIn(id, translating') =
                      CopiesIn(id, translating)
                        + Cardinality({k \in DOMAIN Appended : Appended[k].id = id})
        /\ \A id \in BagToSet(translating), r \in Responses \ {Failure} :
             TranslationReturns(id, r) =>
               /\ \A i \in EntriesWithId(id) : transcript'[i].translation = r
               /\ CopiesIn(id, translating') = CopiesIn(id, translating) - 1]_vars
  /\ [](translating # EmptyBag =>
          /\ suspended # <<>> => ENABLED AudioResume(Mix)
          /\ \A s \in Sessions, m \in Messages(Mix) :
               (SessionOpen(s) /\ Quiet /\ WithinMix(m)) =>
                 ENABLED Deliver(Mix, s, m, wall))

\* the user entry of a turn carries its translation, the request for the
\* model entry is still in flight, and a delta of the next turn was handled
\* in the meantime
C30_Witness ==
  /\ Len(transcript) = 2
  /\ transcript[1].role = "user" /\ transcript[1].translation = "zh"
  /\ transcript[2].role = "model" /\ transcript[2].translation = Absent
  /\ translating = SetToBag({transcript[2].id})
  /\ accumulatedInput = <<"a">>
  /\ SessionOpen(1)

\* C31: a teardown leaves the handle null and releases the connection of
\* every session on which connect was issued: where the connection promise is
\* fulfilled the connection is no longer open after the step, where it is
\* pending and the connection is still being set up a close is registered on
\* it; and a connection that opens with a close registered is closed in the
\* same step.
C31_TeardownClosesConnection ==
  [][/\ Teardown =>
          /\ sessionRef' = NoSession
          /\ \A t \in Sessions :
               /\ prom[t] = "resolved" => ws'[t] # "open"
               /\ (prom[t] = "pending" /\ ws'[t] = "connecting") => closeReq'[t]
     /\ \A t \in Sessions : (OnOpen(t) /\ closeReq[t]) => ws'[t] = "closing"]_vars

\* the Int16Array elements behind the data createBlob returned
Stored == dataInt16(decode(pcmBlob))

\* C32: for a frame of samples within [-1, 1], createBlob stores for each
\* sample the integer part of the sample times 32768, a value within
\* [-32768, 32767] that is not of the opposite sign.
C32_EncodeInRange ==
  utilPc = "encoded" =>
    /\ Len(Stored) = Len(pcm)
    /\ \A i \in DOMAIN pcm :
         (-32768 * CodecSub <= pcm[i] /\ pcm[i] <= 32768 * CodecSub) =>
           /\ Stored[i] = Trunc(pcm[i], CodecSub)
           /\ -32768 <= Stored[i] /\ Stored[i] <= 32767
           /\ pcm[i] > 0 => Stored[i] >= 0
           /\ pcm[i] < 0 => Stored[i] <= 0
====
